---- MODULE Spec2Model ----
(***************************************************************************)
(* Task manager (task_manager.py.py): the GoogleSheetsManager record store *)
(* (load_tasks, save_tasks, add_or_update_task, delete_task) over a remote *)
(* worksheet, and the Streamlit handlers of main() that drive it.          *)
(*                                                                         *)
(* Values.  Every Python value and every worksheet cell is a string here.  *)
(* A worksheet cell is the text get_all_values() returns for it.  The      *)
(* Python values that are not text are written "py:...": the booleans      *)
(* False and True and the integer 0 that numericise() makes of the cell    *)
(* "0".  Python indices are 0-based; TLA+ sequences are 1-based, so        *)
(* Python's tasks[i] is tasks[i + 1] here.  None is <<>>, the index i is   *)
(* <<i>>.                                                                  *)
(***************************************************************************)
EXTENDS Integers, Sequences, FiniteSets, TLC

VARIABLES
    sheet,           \* the worksheet: a sequence of rows, each a sequence of cells
    started,         \* started[s]: 'task_manager' is in the session state of s
    tasks,           \* tasks[s]: task_manager.tasks of session s
    selected_index,  \* selected_index[s]: st.session_state.selected_index
    edit,            \* edit[s]: the edit_* keys of the session state
    call,            \* call[s]: what the last handler of s called and got back
    actor,           \* the session whose handler ran last
    rt               \* the load / save / load sequence run on the store alone:
                     \* its place, the lists loaded, whether both loads worked,
                     \* what save_tasks returned, the worksheet before the save

vars == <<sheet, started, tasks, selected_index, edit, call, actor, rt>>

-----------------------------------------------------------------------------
(* Bounds *)

MaxLen == 2      \* an append is taken only while len(tasks) < MaxLen
MaxRows == 2     \* data rows of an initial worksheet

-----------------------------------------------------------------------------
(* Python values and worksheet cells *)

PyFalse == "py:False"
PyTrue == "py:True"
PyZero == "py:0"

PyBool(b) == IF b THEN PyTrue ELSE PyFalse

\* bool(v): the empty string, False and 0 are falsy
Truthy(v) == v \notin {"", PyFalse, PyZero}

\* numericise(): a cell that reads as a number becomes that number
Numericise(cell) == IF cell = "0" THEN PyZero ELSE cell

\* append_row() writes the value as it is (RAW); the cell then reads back as
\* its displayed text: FALSE / TRUE for a boolean, the digits for a number.
CellOf(v) ==
    CASE v = PyFalse -> "FALSE"
      [] v = PyTrue -> "TRUE"
      [] v = PyZero -> "0"
      [] OTHER -> v

\* str.strip() on the form texts used here
Strip(s) ==
    CASE s = " " -> ""
      [] s = " b " -> "b"
      [] OTHER -> s

None == <<>>
Some(i) == <<i>>

Range(f) == {f[i] : i \in DOMAIN f}

CATEGORIES ==
    <<"APV", "UAPV", "EV", "KPI", "NTC", "ACT", "NTU", "OT", "PRJ", "CT", "All">>

BUILDINGS ==
    <<"OH", "OHWE", "OHNE", "ASH", "LC", "LSH", "SAB", "WH", "KIS", "APTS1",
      "APAB", "APSV", "AAE", "ETS1", "ETS2", "ETS3", "OHAC", "NHAC", "ODCR",
      "CAU", "CPG", "PTZ2", "AA", "EC", "SC", "NHQ", "NEC", "SCU", "RO">>

\* headers of save_tasks
HEADERS ==
    <<"description", "building", "tcd", "comments", "category", "last_updated",
      "closed">>

-----------------------------------------------------------------------------
(* The worksheet as gspread shows it *)

\* worksheet.get_all_records(): the first row gives the keys, every later row
\* is a dict from those keys to its numericised cells (a short row is padded
\* with empty cells); a worksheet of at most one row has no records.
RowDict(header, row) ==
    [k \in Range(header) |->
        LET i == CHOOSE j \in 1..Len(header) : header[j] = k
        IN  IF i <= Len(row) THEN Numericise(row[i]) ELSE ""]

get_all_records(sh) ==
    IF Len(sh) <= 1
    THEN <<>>
    ELSE [i \in 1..(Len(sh) - 1) |-> RowDict(sh[1], sh[i + 1])]

\* dict.get(key, default)
Get(d, k, default) == IF k \in DOMAIN d THEN d[k] ELSE default

\* AnyValue looking at the description alone (C8 rests on AnyValue)
AnyDescription(record) == Truthy(Get(record, "description", ""))

\* any(record.values())
AnyValue(record) == \E k \in DOMAIN record : Truthy(record[k])

\* the formatted_record of load_tasks
FormatRecord(record) ==
    [description |-> Get(record, "description", ""),
     building |-> Get(record, "building", ""),
     tcd |-> Get(record, "tcd", ""),
     comments |-> Get(record, "comments", ""),
     category |-> Get(record, "category", "OT"),
     last_updated |-> Get(record, "last_updated", ""),
     closed |-> Get(record, "closed", PyFalse)]

\* the loop of load_tasks over the records
FormatRecords(records) ==
    LET kept == SelectSeq(records, AnyValue)
    IN  [i \in 1..Len(kept) |-> FormatRecord(kept[i])]

\* load_tasks(): ok is FALSE when get_credentials() gives None or gspread
\* raises; the method then returns [].
load_tasks(sh, ok) == IF ok THEN FormatRecords(get_all_records(sh)) ELSE <<>>

\* the row save_tasks appends for a task, as its cells read afterwards
RowOf(task) ==
    <<CellOf(task.description), CellOf(task.building), CellOf(task.tcd),
      CellOf(task.comments), CellOf(task.category), CellOf(task.last_updated),
      CellOf(task.closed)>>

\* the write requests save_tasks makes: clear(), and for a non-empty list one
\* append_row for the headers and one per task
SaveSteps(ts) == IF ts = <<>> THEN 1 ELSE Len(ts) + 2

\* SheetAfter without the clear(): the rows are appended to what is there
\* (C6 rests on SheetAfter)
SheetAfterNoClear(sh, ts, done) ==
    IF done = 0 \/ ts = <<>> \/ done = 1
    THEN sh
    ELSE sh \o <<HEADERS>> \o [i \in 1..(done - 2) |-> RowOf(ts[i])]

\* the worksheet after the first `done` write requests of save_tasks(ts)
SheetAfter(sh, ts, done) ==
    IF done = 0
    THEN sh
    ELSE IF ts = <<>> \/ done = 1
         THEN <<>>
         ELSE <<HEADERS>> \o [i \in 1..(done - 2) |-> RowOf(ts[i])]

\* the write requests of save_tasks(ts) that succeed when request number
\* `fail` raises (0, or a number above the requests made: none raises)
Done(ts, fail) ==
    IF fail = 0 \/ fail > SaveSteps(ts) THEN SaveSteps(ts) ELSE fail - 1

\* save_tasks(ts) when its write request number `fail` raises (fail = 1
\* also stands for get_credentials() giving None and for open() raising:
\* nothing was written): True only when every request succeeded.
save_tasks(sh, ts, fail) ==
    [sheet |-> SheetAfter(sh, ts, Done(ts, fail)),
     ret |-> (Done(ts, fail) = SaveSteps(ts))]

-----------------------------------------------------------------------------
(* GoogleSheetsManager.add_or_update_task and delete_task *)

\* Python's list index: i names a position of a list of length n
InPyRange(i, n) == -n <= i /\ i < n

\* the 1-based position Python's index i names in a list of length n
PyPos(i, n) == IF i >= 0 THEN i + 1 ELSE n + i + 1

\* Put appending whatever the index (C2 rests on Put)
PutAppending(ts, task_data, index) == Append(ts, task_data)

\* self.tasks[selected_index] = task_data  /  self.tasks.append(task_data)
Put(ts, task_data, index) ==
    IF index # None
    THEN [ts EXCEPT ![PyPos(index[1], Len(ts))] = task_data]
    ELSE Append(ts, task_data)

\* add_or_update_task saving the list as it was before the change (C7 rests
\* on add_or_update_task)
add_or_update_taskSavingFirst(ts, sh, task_data, index, fail) ==
    IF index # None /\ ~InPyRange(index[1], Len(ts))
    THEN [tasks |-> ts, sheet |-> sh, ret |-> FALSE, saved |-> FALSE]
    ELSE LET s == save_tasks(sh, ts, fail)
         IN  [tasks |-> Put(ts, task_data, index), sheet |-> s.sheet, ret |-> s.ret,
              saved |-> TRUE]

\* add_or_update_task(task_data, selected_index): an index that names no
\* position raises IndexError, which the method catches: it returns False
\* and save_tasks is not reached.
add_or_update_task(ts, sh, task_data, index, fail) ==
    IF index # None /\ ~InPyRange(index[1], Len(ts))
    THEN [tasks |-> ts, sheet |-> sh, ret |-> FALSE, saved |-> FALSE]
    ELSE LET new == Put(ts, task_data, index)
             s == save_tasks(sh, new, fail)
         IN  [tasks |-> new, sheet |-> s.sheet, ret |-> s.ret, saved |-> TRUE]

\* del self.tasks[index]
Del(ts, index) ==
    [i \in 1..(Len(ts) - 1) |-> IF i <= index THEN ts[i] ELSE ts[i + 1]]

\* delete_task without the lower bound of its range test, so that a negative
\* index counts from the end as in Python (C4 rests on delete_task)
delete_taskNoLowerBound(ts, sh, index, fail) ==
    IF index < Len(ts) /\ 0 - Len(ts) <= index
    THEN LET new == Del(ts, PyPos(index, Len(ts)) - 1)
             s == save_tasks(sh, new, fail)
         IN  [tasks |-> new, sheet |-> s.sheet, ret |-> s.ret, saved |-> TRUE]
    ELSE [tasks |-> ts, sheet |-> sh, ret |-> FALSE, saved |-> FALSE]

\* delete_task(index)
delete_task(ts, sh, index, fail) ==
    IF 0 <= index /\ index < Len(ts)
    THEN LET new == Del(ts, index)
             s == save_tasks(sh, new, fail)
         IN  [tasks |-> new, sheet |-> s.sheet, ret |-> s.ret, saved |-> TRUE]
    ELSE [tasks |-> ts, sheet |-> sh, ret |-> FALSE, saved |-> FALSE]

-----------------------------------------------------------------------------
(* Session state *)

Sessions == {"A", "B"}

Absent == "absent"

\* no edit_* key is in the session state yet
NoEdit ==
    [description |-> Absent, building |-> Absent, tcd |-> Absent,
     comments |-> Absent, category |-> Absent]

\* clear_edit_state(): the edit_* keys (selected_index is set beside it)
clear_edit_state ==
    [description |-> "", building |-> BUILDINGS[1], tcd |-> "",
     comments |-> "", category |-> "OT"]

\* set_edit_state(task, index): the edit_* keys
set_edit_state(task) ==
    [description |-> task.description, building |-> task.building,
     tcd |-> task.tcd, comments |-> task.comments, category |-> task.category]

\* the task_data the form handlers build
TaskData(description, building, tcd, comments, category, now) ==
    [description |-> Strip(description), building |-> building, tcd |-> tcd,
     comments |-> comments, category |-> category, last_updated |-> now,
     closed |-> PyBool(category = "CT")]

\* what a handler called: op is "none" when it called no method of the store
Call(op, index, task, ret, saved) ==
    [op |-> op, index |-> index, task |-> task, ret |-> ret, saved |-> saved]

NoCall == Call("none", None, <<>>, FALSE, FALSE)

\* the Edit button's search: the first task that agrees with the clicked one
\* on description, building and category (0-based)
ActualIndex(ts, task) ==
    (CHOOSE j \in 1..Len(ts) :
        /\ ts[j].description = task.description
        /\ ts[j].building = task.building
        /\ ts[j].category = task.category
        /\ \A k \in 1..(j - 1) :
              ~(/\ ts[k].description = task.description
                /\ ts[k].building = task.building
                /\ ts[k].category = task.category)) - 1

-----------------------------------------------------------------------------
(* Initial worksheets and handler inputs *)

SeqsUpTo(S, n) == UNION {[1..k -> S] : k \in 0..n}

\* rows of a worksheet that has the seven columns of save_tasks: two rows as
\* the application wrote them, a row without description, an empty row
UiRows ==
    { <<"a", "OH", "", "", "ACT", "ts", "FALSE">>,
      <<"b", "OH", "", "", "CT", "ts", "TRUE">>,
      <<"", "OH", "", "c", "OT", "", "">>,
      <<"", "", "", "", "", "", "">> }

UiSheets ==
    {<<>>} \cup {<<HEADERS>> \o rows : rows \in SeqsUpTo(UiRows, MaxRows)}

\* the form's inputs
FormDescriptions == {"", " ", "a", " b "}
FormBuildings == {BUILDINGS[1]}
FormTexts == {""}
FormCategories == {"ACT", "CT"}
Times == {"ts"}

\* the write request of save_tasks that raises: none, the first (nothing is
\* written), the first append_row of a task (the worksheet is left with the
\* header row alone)
FailInputs == {0, 1, 3}

InitSession ==
    /\ started = [s \in Sessions |-> FALSE]
    /\ tasks = [s \in Sessions |-> <<>>]
    /\ selected_index = [s \in Sessions |-> None]
    /\ edit = [s \in Sessions |-> NoEdit]
    /\ call = [s \in Sessions |-> NoCall]
    /\ actor = "none"
    /\ rt = [pc |-> "start", L1 |-> <<>>, L2 |-> <<>>, ok |-> TRUE, ret |-> FALSE,
             before |-> <<>>]

Init == sheet \in UiSheets /\ InitSession

-----------------------------------------------------------------------------
(* The handlers of main() *)

\* st.session_state.task_manager = GoogleSheetsManager(): __init__ loads
StartSession(s, ok) ==
    /\ ~started[s]
    /\ started' = [started EXCEPT ![s] = TRUE]
    /\ tasks' = [tasks EXCEPT ![s] = load_tasks(sheet, ok)]
    /\ selected_index' = [selected_index EXCEPT ![s] = None]
    /\ call' = [call EXCEPT ![s] = Call("load_tasks", None, <<>>, ok, FALSE)]
    /\ actor' = s
    /\ UNCHANGED <<sheet, edit, rt>>

\* "Add Quick Task"
QuickAdd(s, quick_desc, quick_cat, now, fail) ==
    /\ started[s]
    /\ actor' = s
    /\ IF Strip(quick_desc) = ""
       THEN /\ call' = [call EXCEPT ![s] = NoCall]
            /\ UNCHANGED <<sheet, tasks>>
       ELSE LET task_data == TaskData(quick_desc, BUILDINGS[1], "", "", quick_cat, now)
                r == add_or_update_task(tasks[s], sheet, task_data, None, fail)
            IN  /\ Len(tasks[s]) < MaxLen
                /\ tasks' = [tasks EXCEPT ![s] = r.tasks]
                /\ sheet' = r.sheet
                /\ call' = [call EXCEPT ![s] =
                              Call("add_or_update_task", None, <<task_data>>, r.ret, r.saved)]
    /\ UNCHANGED <<started, selected_index, edit, rt>>

\* "Add Task" / "Update Task"
AddOrUpdateClick(s, description, building, tcd, comments, category, now, fail) ==
    /\ started[s]
    /\ actor' = s
    /\ IF Strip(description) = ""
       THEN /\ call' = [call EXCEPT ![s] = NoCall]
            /\ UNCHANGED <<sheet, tasks, selected_index, edit>>
       ELSE LET task_data == TaskData(description, building, tcd, comments, category, now)
                r == add_or_update_task(tasks[s], sheet, task_data, selected_index[s], fail)
            IN  /\ selected_index[s] = None => Len(tasks[s]) < MaxLen
                /\ tasks' = [tasks EXCEPT ![s] = r.tasks]
                /\ sheet' = r.sheet
                /\ call' = [call EXCEPT ![s] =
                              Call("add_or_update_task", selected_index[s], <<task_data>>,
                                   r.ret, r.saved)]
                /\ IF r.ret
                   THEN /\ selected_index' = [selected_index EXCEPT ![s] = None]
                        /\ edit' = [edit EXCEPT ![s] = clear_edit_state]
                   ELSE UNCHANGED <<selected_index, edit>>
    /\ UNCHANGED <<started, rt>>

\* "Cancel", shown while a task is selected
CancelClick(s) ==
    /\ started[s]
    /\ selected_index[s] # None
    /\ selected_index' = [selected_index EXCEPT ![s] = None]
    /\ edit' = [edit EXCEPT ![s] = clear_edit_state]
    /\ call' = [call EXCEPT ![s] = NoCall]
    /\ actor' = s
    /\ UNCHANGED <<sheet, started, tasks, rt>>

\* "Delete", shown while a task is selected
DeleteClick(s, fail) ==
    /\ started[s]
    /\ selected_index[s] # None
    /\ actor' = s
    /\ LET r == delete_task(tasks[s], sheet, selected_index[s][1], fail)
       IN  /\ tasks' = [tasks EXCEPT ![s] = r.tasks]
           /\ sheet' = r.sheet
           /\ call' = [call EXCEPT ![s] =
                         Call("delete_task", selected_index[s], <<>>, r.ret, r.saved)]
           /\ IF r.ret
              THEN /\ selected_index' = [selected_index EXCEPT ![s] = None]
                   /\ edit' = [edit EXCEPT ![s] = clear_edit_state]
              ELSE UNCHANGED <<selected_index, edit>>
    /\ UNCHANGED <<started, rt>>

\* "Clear Form"
ClearFormClick(s) ==
    /\ started[s]
    /\ selected_index' = [selected_index EXCEPT ![s] = None]
    /\ edit' = [edit EXCEPT ![s] = clear_edit_state]
    /\ call' = [call EXCEPT ![s] = NoCall]
    /\ actor' = s
    /\ UNCHANGED <<sheet, started, tasks, rt>>

\* "Refresh Data"
RefreshClick(s, ok) ==
    /\ started[s]
    /\ tasks' = [tasks EXCEPT ![s] = load_tasks(sheet, ok)]
    /\ call' = [call EXCEPT ![s] = Call("load_tasks", None, <<>>, ok, FALSE)]
    /\ actor' = s
    /\ UNCHANGED <<sheet, started, selected_index, edit, rt>>

\* "Edit" on the task shown from position i of the list (1-based): with the
\* filter "All" every task of the list is shown.
EditClick(s, i) ==
    /\ started[s]
    /\ i \in 1..Len(tasks[s])
    /\ selected_index' =
          [selected_index EXCEPT ![s] = Some(ActualIndex(tasks[s], tasks[s][i]))]
    /\ edit' = [edit EXCEPT ![s] = set_edit_state(tasks[s][i])]
    /\ call' = [call EXCEPT ![s] = NoCall]
    /\ actor' = s
    /\ UNCHANGED <<sheet, started, tasks, rt>>

\* one session
Session(s) ==
    \/ \E ok \in BOOLEAN : StartSession(s, ok)
    \/ \E d \in FormDescriptions, c \in FormCategories, now \in Times, fail \in FailInputs :
          QuickAdd(s, d, c, now, fail)
    \/ \E d \in FormDescriptions, b \in FormBuildings, t \in FormTexts, m \in FormTexts,
          c \in FormCategories, now \in Times, fail \in FailInputs :
          AddOrUpdateClick(s, d, b, t, m, c, now, fail)
    \/ CancelClick(s)
    \/ \E fail \in FailInputs : DeleteClick(s, fail)
    \/ ClearFormClick(s)
    \/ \E ok \in BOOLEAN : RefreshClick(s, ok)
    \/ \E i \in 1..Len(tasks[s]) : EditClick(s, i)

Next == Session("A")

Spec == Init /\ [][Next]_vars

-----------------------------------------------------------------------------
(* Two sessions on one worksheet: nothing coordinates them *)

TwoSheets == {<<>>, <<HEADERS, <<"a", "OH", "", "", "ACT", "ts", "FALSE">>>>}

\* what each session types
TwoDescriptions(s) == IF s = "A" THEN {"a"} ELSE {" b "}

InitTwo == sheet \in TwoSheets /\ InitSession

SessionTwo(s) ==
    \/ StartSession(s, TRUE)
    \/ \E d \in TwoDescriptions(s), now \in Times, fail \in 0..1 :
          QuickAdd(s, d, "ACT", now, fail)
    \/ DeleteClick(s, 0)
    \/ RefreshClick(s, TRUE)
    \/ \E i \in 1..Len(tasks[s]) : EditClick(s, i)

NextTwo == \E s \in Sessions : SessionTwo(s)

SpecTwo == InitTwo /\ [][NextTwo]_vars

-----------------------------------------------------------------------------
(* The methods of one GoogleSheetsManager, called with any argument *)

\* task_data: what the forms build, and a dict no form builds
ManagerTasks ==
    {TaskData("a", BUILDINGS[1], "", "", "ACT", "ts"),
     TaskData("b", BUILDINGS[1], "", "", "CT", "ts")}
        \cup {[description |-> "", building |-> "", tcd |-> "", comments |-> "",
               category |-> "OT", last_updated |-> "", closed |-> PyTrue]}

\* selected_index: None, every position, every negative index Python takes
\* and one integer beyond each end
IndexInputs == {None} \cup {Some(i) : i \in (0 - MaxLen - 1)..MaxLen}

ManagerAddOrUpdate(s, task_data, index, fail) ==
    /\ started[s]
    /\ index = None => Len(tasks[s]) < MaxLen
    /\ LET r == add_or_update_task(tasks[s], sheet, task_data, index, fail)
       IN  /\ tasks' = [tasks EXCEPT ![s] = r.tasks]
           /\ sheet' = r.sheet
           /\ call' = [call EXCEPT ![s] =
                         Call("add_or_update_task", index, <<task_data>>, r.ret, r.saved)]
    /\ actor' = s
    /\ UNCHANGED <<started, selected_index, edit, rt>>

ManagerDelete(s, index, fail) ==
    /\ started[s]
    /\ index # None
    /\ LET r == delete_task(tasks[s], sheet, index[1], fail)
       IN  /\ tasks' = [tasks EXCEPT ![s] = r.tasks]
           /\ sheet' = r.sheet
           /\ call' = [call EXCEPT ![s] = Call("delete_task", index, <<>>, r.ret, r.saved)]
    /\ actor' = s
    /\ UNCHANGED <<started, selected_index, edit, rt>>

NextManager ==
    \/ \E ok \in BOOLEAN : StartSession("A", ok)
    \/ \E t \in ManagerTasks, i \in IndexInputs, fail \in 0..1 :
          ManagerAddOrUpdate("A", t, i, fail)
    \/ \E i \in IndexInputs, fail \in 0..1 : ManagerDelete("A", i, fail)

InitManager == sheet \in TwoSheets /\ InitSession

SpecManager == InitManager /\ [][NextManager]_vars

-----------------------------------------------------------------------------
(* The store alone: load_tasks, save_tasks of what was loaded, load_tasks *)

StoreHeaders == {HEADERS, HEADERS \o <<"notes">>, <<"description", "tcd">>}

\* the cells a column of an initial worksheet takes
CellsOf(column) ==
    CASE column = "description" -> {"", "a"}
      [] column = "tcd" -> {"", "0"}
      [] column = "closed" -> {"", "FALSE"}
      [] column = "notes" -> {"", "x"}
      [] OTHER -> {""}

RECURSIVE RowsFor(_)
RowsFor(header) ==
    IF header = <<>>
    THEN {<<>>}
    ELSE {<<c>> \o r : c \in CellsOf(Head(header)), r \in RowsFor(Tail(header))}

\* any rows under any of the headers (a row may be shorter than the header)
StoreSheets ==
    {<<>>} \cup
    UNION {{<<h>> \o rows : rows \in SeqsUpTo(RowsFor(h) \cup {<<"a">>}, MaxRows)} :
            h \in StoreHeaders}

InitStore == sheet \in StoreSheets /\ InitSession

RtLoad1(ok) ==
    /\ rt.pc = "start"
    /\ rt' = [rt EXCEPT !.pc = "loaded", !.L1 = load_tasks(sheet, ok), !.ok = ok]
    /\ UNCHANGED <<sheet, started, tasks, selected_index, edit, call, actor>>

RtSave(fail) ==
    /\ rt.pc = "loaded"
    /\ LET r == save_tasks(sheet, rt.L1, fail)
       IN  /\ sheet' = r.sheet
           /\ rt' = [rt EXCEPT !.pc = "saved", !.ret = r.ret, !.before = sheet]
    /\ UNCHANGED <<started, tasks, selected_index, edit, call, actor>>

RtLoad2(ok) ==
    /\ rt.pc = "saved"
    /\ rt' = [rt EXCEPT !.pc = "done", !.L2 = load_tasks(sheet, ok), !.ok = rt.ok /\ ok]
    /\ UNCHANGED <<sheet, started, tasks, selected_index, edit, call, actor>>

NextStore ==
    \/ \E ok \in BOOLEAN : RtLoad1(ok)
    \/ \E fail \in FailInputs : RtSave(fail)
    \/ \E ok \in BOOLEAN : RtLoad2(ok)

SpecStore == InitStore /\ [][NextStore]_vars

-----------------------------------------------------------------------------
(* Properties *)

\* the worksheet a successful save_tasks(ts) is said to leave
HeaderAndRows(ts) == <<HEADERS>> \o [i \in 1..Len(ts) |-> RowOf(ts[i])]

\* the last handler of session s called op
Called(s, op) == actor = s /\ call[s].op = op

\* C1: after any add or update, every record of the in-memory collection has
\* closed == (category == "CT").
C1_ClosedFollowsCategory ==
    Called("A", "add_or_update_task") =>
        \A i \in 1..Len(tasks["A"]) :
            tasks["A"][i].closed = PyBool(tasks["A"][i].category = "CT")

\* C2: add_or_update_task(record) with no index makes the collection one
\* longer, the record last and the earlier records unchanged;
\* add_or_update_task(record, i) with 0 <= i < len(tasks) keeps the length,
\* puts the record at position i and leaves every other position unchanged;
\* both whatever save_tasks returns.
C2_UpsertShape ==
    [][(actor' = "A" /\ call'["A"].op = "add_or_update_task") =>
        LET c == call'["A"]
            old == tasks["A"]
            new == tasks'["A"]
        IN  /\ c.index = None =>
                 /\ Len(new) = Len(old) + 1
                 /\ new[Len(new)] = c.task[1]
                 /\ \A i \in 1..Len(old) : new[i] = old[i]
            /\ (c.index # None /\ 0 <= c.index[1] /\ c.index[1] < Len(old)) =>
                 /\ Len(new) = Len(old)
                 /\ new[c.index[1] + 1] = c.task[1]
                 /\ \A i \in 1..Len(old) : i # c.index[1] + 1 => new[i] = old[i]]_vars

\* C2 witness: an update of position 0 of a list of two whose save failed,
\* and the record is at position 0
C2_UpdateWithFailedSave ==
    /\ Called("A", "add_or_update_task")
    /\ call["A"].index = Some(0)
    /\ call["A"].saved /\ ~call["A"].ret
    /\ Len(tasks["A"]) = 2
    /\ tasks["A"][1] = call["A"].task[1]
    /\ tasks["A"][2] # call["A"].task[1]

\* C3: add_or_update_task with an index that is no position of the collection
\* appends the record; and every call, whatever the index, runs save_tasks on
\* the collection and returns its flag.
C3_OutOfRangeAppendsAndSaves ==
    [][(actor' = "A" /\ call'["A"].op = "add_or_update_task") =>
        LET c == call'["A"]
            old == tasks["A"]
            new == tasks'["A"]
        IN  /\ (c.index # None /\ ~(0 <= c.index[1] /\ c.index[1] < Len(old))) =>
                 new = Append(old, c.task[1])
            /\ c.saved
            /\ c.ret => sheet' = HeaderAndRows(new)]_vars

C5_RoundTrip == (rt.pc = "done" /\ rt.ok /\ rt.ret) => rt.L2 = rt.L1

\* C6: when save_tasks returns True the worksheet is the header row followed
\* by one row per record, in order, and nothing else.
C6_HeaderAndRows == (rt.pc = "saved" /\ rt.ret) => sheet = HeaderAndRows(rt.L1)

\* C6 as amended: when save_tasks returns True the worksheet is, for a
\* non-empty collection, the header row followed by one row per record in
\* order, and for an empty collection it has no row at all, the header row
\* included; nothing of the content before remains in either case.
C6_HeaderAndRowsUnlessEmpty ==
    (rt.pc = "saved" /\ rt.ret) =>
        sheet = IF rt.L1 = <<>> THEN <<>> ELSE HeaderAndRows(rt.L1)

\* C6 witness: a successful save of one record over a worksheet that had two
\* data rows
C6_SaveReplacedContent ==
    /\ rt.pc = "saved" /\ rt.ret
    /\ Len(rt.L1) = 1
    /\ Len(rt.before) = 3
    /\ Len(sheet) = 2

\* C7: after a session's successful save the worksheet is that session's
\* in-memory collection, whatever another session saved before: the last
\* writer wins.
C7_LastWriterWins ==
    \A s \in Sessions :
        (actor = s /\ call[s].op \in {"add_or_update_task", "delete_task"} /\ call[s].ret) =>
            sheet = IF tasks[s] = <<>> THEN <<>> ELSE HeaderAndRows(tasks[s])

\* C7 witness: the last handler of A added "a" and got True, then B, which
\* had loaded before, added "b" and got True, and no row of the worksheet
\* holds "a" any more
C7_SavedRecordLost ==
    /\ call["A"].op = "add_or_update_task" /\ call["A"].ret
    /\ call["A"].task[1].description = "a"
    /\ Called("B", "add_or_update_task") /\ call["B"].ret
    /\ call["B"].task[1].description = "b"
    /\ \E i \in 1..Len(tasks["A"]) : tasks["A"][i].description = "a"
    /\ Len(sheet) = 2
    /\ \A i \in 2..Len(sheet) : sheet[i][1] # "a"

\* a cell of data row i of the worksheet, under one of the header's columns,
\* reads as a truthy value
RowHasValue(sh, i) ==
    \E c \in 1..Len(sh[1]) : c <= Len(sh[i + 1]) /\ Truthy(Numericise(sh[i + 1][c]))

\* C8: load_tasks returns, in row order, exactly the data rows that have a
\* truthy field: no row without one is in the result, none with one is
\* dropped or moved.
C8_LoadKeepsRowsWithValue ==
    (rt.pc = "loaded" /\ rt.ok) =>
        LET n == IF sheet = <<>> THEN 0 ELSE Len(sheet) - 1
            kept == {i \in 1..n : RowHasValue(sheet, i)}
        IN  /\ Len(rt.L1) = Cardinality(kept)
            /\ \A i \in kept :
                  rt.L1[Cardinality({j \in kept : j <= i})] =
                      FormatRecord(RowDict(sheet[1], sheet[i + 1]))

\* C8 witness: of two data rows the first has no truthy cell (its tcd reads
\* 0) and the second has one only under the column "notes"; the load gave one
\* record
C8_EmptyRowDropped ==
    /\ rt.pc = "loaded" /\ rt.ok
    /\ Len(sheet) = 3
    /\ ~RowHasValue(sheet, 1)
    /\ \E c \in 1..Len(sheet[2]) : sheet[2][c] = "0"
    /\ RowHasValue(sheet, 2)
    /\ Len(sheet[1]) = 8 /\ Len(sheet[3]) = 8
    /\ sheet[3][8] = "x" /\ sheet[3][1] = ""
    /\ Len(rt.L1) = 1

\* C9: every record of the in-memory collection has a description that is
\* non-empty after trimming.
C9_DescriptionNonEmpty ==
    \A i \in 1..Len(tasks["A"]) : Strip(tasks["A"][i].description) # ""

\* C10: whenever an add (no index) returns True, every record the worksheet
\* held before the call is in the worksheet after it.
C10_AddKeepsStoredRecords ==
    [][(actor' = "A" /\ call'["A"].op = "add_or_update_task"
            /\ call'["A"].index = None /\ call'["A"].ret) =>
        Range(load_tasks(sheet, TRUE)) \subseteq Range(load_tasks(sheet', TRUE))]_vars

\* C11: selected_index is None or a position of the in-memory collection,
\* and the record at that position is the one the Edit click chose (it agrees
\* with the edit_* keys set_edit_state stored).
C11_SelectedIndexValid ==
    selected_index["A"] # None =>
        /\ 0 <= selected_index["A"][1]
        /\ selected_index["A"][1] < Len(tasks["A"])
        /\ set_edit_state(tasks["A"][selected_index["A"][1] + 1]) = edit["A"]

====
